---------------------------- MODULE Spec2Model ----------------------------
(***************************************************************************)
(* Model of sd-watcher-afk.                                                *)
(*                                                                         *)
(*  - AFKWatcher (afk.py): Settings construction, run(), ping() and the    *)
(*    heartbeat_loop state machine, one action per statement group so that *)
(*    an asynchronous KeyboardInterrupt can arrive between any two of them.*)
(*  - EventFactory / KeyboardListener / MouseListener (listeners.py) and   *)
(*    LastInputUnix (unix.py): the hook callbacks run on their own threads *)
(*    and interleave with the poll thread statement by statement.          *)
(*                                                                         *)
(* Time is counted in milliseconds.  seconds_since_input holds the idle    *)
(* time in milliseconds as well, so `seconds_since_input < timeout` of the *)
(* source reads `seconds_since_input < timeout * MsPerSec` here.           *)
(***************************************************************************)
EXTENDS Integers, Sequences, FiniteSets, TLC

VARIABLES
    \* ---- afk.py: AFKWatcher --------------------------------------------
    pc,                  \* position of the main thread
    exit,                \* how the main thread ended ("none" while running)
    raised,              \* the last exception raised in the main thread
    system,              \* platform.system()
    ppid,                \* os.getppid()
    settings,            \* self.settings (NoSettings before construction)
    afk,                 \* local afk of heartbeat_loop
    clock,               \* the wall clock, datetime.now()
    now,                 \* local now of heartbeat_loop
    seconds_since_input, \* local seconds_since_input (in ms)
    last_input,          \* local last_input
    branch,              \* which arm of the if/elif/else the tick took
    afk0,                \* afk when the tick sampled (history)
    tickPings,           \* heartbeats submitted by the current tick (history)
    hist,                \* one record per completed tick (history)
    requests,            \* what the client was asked to queue, in order
    \* ---- listeners.py: KeyboardListener --------------------------------
    kbFlag,              \* keyboardListener.new_event
    kbData,              \* keyboardListener.event_data["presses"]
    kbSnap,              \* "presses" of the dict returned by the last drain
    kbPc,                \* position of the keyboard hook thread
    kbRef,               \* which dict the running on_press loaded
    kbVal,               \* the value on_press read from it
    kbCalls,             \* callbacks started so far
    kbLog,               \* the callbacks completed so far, in order (history)
    kbDrained,           \* sum of "presses" the drains returned (history)
    \* ---- listeners.py: MouseListener -----------------------------------
    mFlag,               \* mouseListener.new_event
    mData,               \* mouseListener.event_data
    mPos,                \* mouseListener.pos
    mPc,                 \* position of the mouse hook thread
    mRef,                \* which dict the running callback loaded
    mVal,                \* the value the callback read from it
    mArg,                \* arguments / locals of the running callback
    mCalls,              \* callbacks started so far
    mMoves,              \* positions of the completed on_move calls (history)
    mDrained,            \* deltaX and deltaY the drains took away, summed (history)
    \* ---- unix.py: LastInputUnix ----------------------------------------
    pollPc,              \* position of the poll thread
    pollNow,             \* local now of seconds_since_last_input
    last_activity,       \* self.last_activity
    pollRet,             \* last value returned
    polls,               \* calls started so far
    pollPre,             \* what the running call found when it began (history)
    pollActed,           \* the running call has set last_activity (history)
    owed,                \* calls by whose return an input must be noticed (history)
    budget,              \* how many callbacks and calls the run delivers
    \* ---- windows.py: the system-call idle source ------------------------
    winTick,             \* the operating system's tick counter (ms, DWORD)
    winLastInput,        \* the tick of the last input event (DWORD)
    winWrapped,          \* the counter has wrapped since the last input (history)
    winInputSince,       \* an input arrived since the running or last call began
    winPc,               \* position of the caller in seconds_since_last_input
    winCur,              \* value returned by _getTickCount()
    winLast,             \* value returned by _getLastInputTick()
    winNote,             \* what held when the running call began (history)
    winRes,              \* the last call that returned (history)
    winPrev              \* the call that returned before it (history)

loopVars == <<pc, exit, raised, system, ppid, settings, afk, clock, now,
              seconds_since_input, last_input, branch, afk0, tickPings,
              hist, requests>>
kbVars   == <<kbFlag, kbData, kbSnap, kbPc, kbRef, kbVal, kbCalls, kbLog,
              kbDrained>>
mVars    == <<mFlag, mData, mPos, mPc, mRef, mVal, mArg, mCalls, mMoves, mDrained>>
pollVars == <<pollPc, pollNow, last_activity, pollRet, polls, pollPre,
              pollActed>>
winVars  == <<winTick, winLastInput, winWrapped, winInputSince, winPc, winCur,
              winLast, winNote, winRes, winPrev>>
vars     == <<loopVars, kbVars, mVars, pollVars, owed, budget, winVars>>

---------------------------------------------------------------------------
(* Bounds *)

MaxTicks   == 5     \* ticks of heartbeat_loop explored
SampleOver == 10    \* seconds above the timeout an idle sample may lie
MaxKbCalls == 2     \* keyboard hook callbacks explored
MaxMouseCalls == 2  \* mouse hook callbacks explored
MaxPolls   == 2     \* calls of seconds_since_last_input explored

---------------------------------------------------------------------------
(* afk.py *)

MsPerSec == 1000
td1ms    == 1

NoSettings == [timeout |-> 0, poll_time |-> 0]
Systems    == {"Windows", "Darwin", "Linux"}
Pids       == {1, 2}

\* config.py: default_config and load_config(testing)
load_config(testing) ==
    IF testing THEN [timeout |-> 20,  poll_time |-> 1]
               ELSE [timeout |-> 300, poll_time |-> 5]

\* Command-line values handed to Settings; 0 stands for a falsy value
\* (None or 0), which `or` replaces by the configured one.
ArgPairs == {<<0, 0>>, <<5, 10>>}

\* Settings.__init__: `timeout or config_section["timeout"]`
SettingsOf(config_section, timeout, poll_time) ==
    [timeout   |-> IF timeout # 0 THEN timeout ELSE config_section.timeout,
     poll_time |-> IF poll_time # 0 THEN poll_time ELSE config_section.poll_time]

\* the assertion compiled away
SettingsAssert_Off(s) == TRUE

\* Settings.__init__: assert self.timeout >= self.poll_time
SettingsAssert(s) == s.timeout >= s.poll_time

\* The idle samples offered to a tick, in ms: none, just below the timeout,
\* exactly the timeout, and well above it.
SampleSet(timeout) ==
    {0, timeout * MsPerSec - 1, timeout * MsPerSec,
     (timeout + SampleOver) * MsPerSec}

\* ping(): the event and the heartbeat request built from it
Status(a) == IF a THEN "afk" ELSE "not-afk"

Ping_NoPollTime(a, timestamp) ==
    [op        |-> "heartbeat",
     bucket    |-> "sd-watcher-afk",
     status    |-> Status(a),
     app       |-> "afk",
     title     |-> "Idle time",
     timestamp |-> timestamp,
     duration  |-> 0,
     pulsetime |-> settings.timeout,
     queued    |-> TRUE]

Ping(a, timestamp) ==
    [op        |-> "heartbeat",
     bucket    |-> "sd-watcher-afk",
     status    |-> Status(a),
     app       |-> "afk",
     title     |-> "Idle time",
     timestamp |-> timestamp,
     duration  |-> 0,
     pulsetime |-> settings.timeout + settings.poll_time,
     queued    |-> TRUE]

CreateBucket ==
    [op |-> "create_bucket", bucket |-> "sd-watcher-afk",
     eventtype |-> "afkstatus", queued |-> TRUE]

\* The statements of heartbeat_loop that lie inside `try:`
InTry == {"check_parent", "sample", "branch", "set_afk", "ping2", "sleep"}

\* variant: the handler is missing
Caught_Nothing(exc) == FALSE

\* `except KeyboardInterrupt:` is the only handler of the loop
Caught(exc) == exc = "KeyboardInterrupt"

\* variant: the platform test is left out
ParentDied_AnySystem(sys, pid) == pid = 1

\* line 112: system in ["Darwin", "Linux"] and os.getppid() == 1
ParentDied(sys, pid) == sys \in {"Darwin", "Linux"} /\ pid = 1

\* line 128: afk and seconds_since_input < self.settings.timeout
NoLongerAFK(a, s, timeout) == a /\ s < timeout * MsPerSec

\* variant: `>` instead of `>=`
BecameAFK_Strict(a, s, timeout) == ~a /\ s > timeout * MsPerSec

\* variant: `not afk` is left out
BecameAFK_IgnoresState(a, s, timeout) == s >= timeout * MsPerSec

\* line 135: not afk and seconds_since_input >= self.settings.timeout
BecameAFK(a, s, timeout) == ~a /\ s >= timeout * MsPerSec

\* variant: afk is reassigned before the first ping
FirstPing_NewStatus(a, li) == Ping(~a, li)

\* lines 130 and 137: the first ping of a transition is sent before afk is
\* reassigned, so it carries the status the tick started with
FirstPing(a, li) == Ping(a, li)

\* variant: both transitions use timestamp + 1 ms, as the comment of
\* line 139 says
SecondPing_Plus1ms(br, a, n, li) == Ping(a, li + td1ms)

\* line 133 / lines 140-142: the second ping of a transition
SecondPing(br, a, n, li) ==
    IF br = "no_longer_afk" THEN Ping(a, li + td1ms) ELSE Ping(a, n)

\* variant: always the sampling instant
NoChangePing_Now(a, n, li) == Ping(a, n)

\* variant: always the last input
NoChangePing_LastInput(a, n, li) == Ping(a, li)

\* lines 146-151: the ping of a tick without state change
NoChangePing(a, n, li) == IF a THEN Ping(a, n) ELSE Ping(a, li)

---------------------------------------------------------------------------
(* Initial state *)

InitLoop ==
    /\ pc = "construct"
    /\ exit = "none"
    /\ raised = "none"
    /\ system \in Systems
    /\ ppid \in Pids
    /\ settings = NoSettings
    /\ afk = FALSE
    /\ clock = 0
    /\ now = 0
    /\ seconds_since_input = 0
    /\ last_input = 0
    /\ branch = "none"
    /\ afk0 = FALSE
    /\ tickPings = << >>
    /\ hist = << >>
    /\ requests = << >>

---------------------------------------------------------------------------
(* AFKWatcher *)

\* AFKWatcher.__init__ -> Settings.__init__
Construct(testing, args) ==
    /\ pc = "construct"
    /\ LET s == SettingsOf(load_config(testing), args[1], args[2])
       IN  IF SettingsAssert(s)
           THEN /\ settings' = s
                /\ pc' = "run"
                /\ UNCHANGED <<exit, raised>>
           ELSE /\ settings' = settings
                /\ pc' = "done"
                /\ exit' = "error"
                /\ raised' = "AssertionError"
    /\ UNCHANGED <<system, ppid, afk, clock, now, seconds_since_input,
                   last_input, branch, afk0, tickPings, hist, requests>>
    /\ UNCHANGED <<kbVars, mVars, pollVars, owed, budget, winVars>>

\* run() entering the loop without creating the bucket
Run_NoCreate ==
    /\ pc = "run"
    /\ clock' = clock + MsPerSec
    /\ afk' = FALSE
    /\ pc' = "check_parent"
    /\ UNCHANGED <<exit, raised, system, ppid, settings, now,
                   seconds_since_input, last_input, branch, afk0, tickPings,
                   hist, requests>>
    /\ UNCHANGED <<kbVars, mVars, pollVars, owed, budget, winVars>>

\* AFKWatcher.run: sleep(1), create_bucket, enter heartbeat_loop (afk = False)
Run ==
    /\ pc = "run"
    /\ clock' = clock + MsPerSec
    /\ requests' = Append(requests, CreateBucket)
    /\ afk' = FALSE
    /\ pc' = "check_parent"
    /\ UNCHANGED <<exit, raised, system, ppid, settings, now,
                   seconds_since_input, last_input, branch, afk0, tickPings,
                   hist>>
    /\ UNCHANGED <<kbVars, mVars, pollVars, owed, budget, winVars>>

\* The parent process exits: the process is reparented to init.
ParentDies ==
    /\ pc \in InTry \cup {"run"}
    /\ ppid # 1
    /\ ppid' = 1
    /\ UNCHANGED <<pc, exit, raised, system, settings, afk, clock, now,
                   seconds_since_input, last_input, branch, afk0, tickPings,
                   hist, requests>>
    /\ UNCHANGED <<kbVars, mVars, pollVars, owed, budget, winVars>>

\* variant: the parent is looked at again between the two pings
CheckParent_MidTick ==
    /\ \/ pc = "check_parent"
       \/ pc = "set_afk" /\ ParentDied(system, ppid)
    /\ IF ParentDied(system, ppid)
       THEN pc' = "done" /\ exit' = "parent_died"
       ELSE pc' = "sample" /\ exit' = exit
    /\ UNCHANGED <<raised, system, ppid, settings, afk, clock, now,
                   seconds_since_input, last_input, branch, afk0, tickPings,
                   hist, requests>>
    /\ UNCHANGED <<kbVars, mVars, pollVars, owed, budget, winVars>>

\* lines 112-117
CheckParent ==
    /\ pc = "check_parent"
    /\ IF ParentDied(system, ppid)
       THEN pc' = "done" /\ exit' = "parent_died"
       ELSE pc' = "sample" /\ exit' = exit
    /\ UNCHANGED <<raised, system, ppid, settings, afk, clock, now,
                   seconds_since_input, last_input, branch, afk0, tickPings,
                   hist, requests>>
    /\ UNCHANGED <<kbVars, mVars, pollVars, owed, budget, winVars>>

\* lines 119-122: now, seconds_since_last_input(), last_input
Sample(s) ==
    /\ pc = "sample"
    /\ now' = clock
    /\ seconds_since_input' = s
    /\ last_input' = clock - s
    /\ afk0' = afk
    /\ pc' = "branch"
    /\ UNCHANGED <<exit, raised, system, ppid, settings, afk, clock, branch,
                   tickPings, hist, requests>>
    /\ UNCHANGED <<kbVars, mVars, pollVars, owed, budget, winVars>>

\* An exception leaves the tick: the handler of line 155 takes it or it
\* leaves heartbeat_loop.
Raise(exc) ==
    /\ raised' = exc
    /\ pc' = "done"
    /\ exit' = IF Caught(exc) THEN "interrupt" ELSE "error"

\* line 120: seconds_since_last_input() raises (windows.py line 24 asserts,
\* unix.py line 58 starts the pynput listeners)
SampleFails ==
    /\ pc = "sample"
    /\ Raise("Exception")
    /\ UNCHANGED <<system, ppid, settings, afk, clock, now,
                   seconds_since_input, last_input, branch, afk0, tickPings,
                   hist, requests>>
    /\ UNCHANGED <<kbVars, mVars, pollVars, owed, budget, winVars>>

Submit(p) ==
    /\ requests' = Append(requests, p)
    /\ tickPings' = Append(tickPings, p)

\* lines 128-130
PingNoLongerAFK ==
    /\ pc = "branch"
    /\ NoLongerAFK(afk, seconds_since_input, settings.timeout)
    /\ Submit(FirstPing(afk, last_input))
    /\ branch' = "no_longer_afk"
    /\ pc' = "set_afk"
    /\ UNCHANGED <<exit, raised, system, ppid, settings, afk, clock, now,
                   seconds_since_input, last_input, afk0, hist>>
    /\ UNCHANGED <<kbVars, mVars, pollVars, owed, budget, winVars>>

\* lines 135-137
PingBecameAFK ==
    /\ pc = "branch"
    /\ ~NoLongerAFK(afk, seconds_since_input, settings.timeout)
    /\ BecameAFK(afk, seconds_since_input, settings.timeout)
    /\ Submit(FirstPing(afk, last_input))
    /\ branch' = "became_afk"
    /\ pc' = "set_afk"
    /\ UNCHANGED <<exit, raised, system, ppid, settings, afk, clock, now,
                   seconds_since_input, last_input, afk0, hist>>
    /\ UNCHANGED <<kbVars, mVars, pollVars, owed, budget, winVars>>

\* lines 144-151
PingNoChange ==
    /\ pc = "branch"
    /\ ~NoLongerAFK(afk, seconds_since_input, settings.timeout)
    /\ ~BecameAFK(afk, seconds_since_input, settings.timeout)
    /\ Submit(NoChangePing(afk, now, last_input))
    /\ branch' = "no_change"
    /\ pc' = "sleep"
    /\ hist' = Append(hist, [sample |-> seconds_since_input,
                             before |-> afk0, after |-> afk,
                             count |-> Len(tickPings) + 1])
    /\ UNCHANGED <<exit, raised, system, ppid, settings, afk, clock, now,
                   seconds_since_input, last_input, afk0>>
    /\ UNCHANGED <<kbVars, mVars, pollVars, owed, budget, winVars>>

\* line 131 (afk = False) / line 138 (afk = True)
SetAfk ==
    /\ pc = "set_afk"
    /\ afk' = (branch = "became_afk")
    /\ pc' = "ping2"
    /\ UNCHANGED <<exit, raised, system, ppid, settings, clock, now,
                   seconds_since_input, last_input, branch, afk0, tickPings,
                   hist, requests>>
    /\ UNCHANGED <<kbVars, mVars, pollVars, owed, budget, winVars>>

\* line 133 / lines 140-142
PingSecond ==
    /\ pc = "ping2"
    /\ Submit(SecondPing(branch, afk, now, last_input))
    /\ pc' = "sleep"
    /\ hist' = Append(hist, [sample |-> seconds_since_input,
                             before |-> afk0, after |-> afk,
                             count |-> Len(tickPings) + 1])
    /\ UNCHANGED <<exit, raised, system, ppid, settings, afk, clock, now,
                   seconds_since_input, last_input, branch, afk0>>
    /\ UNCHANGED <<kbVars, mVars, pollVars, owed, budget, winVars>>

\* self.ping raises (Event construction or client.heartbeat)
PingFails ==
    /\ pc \in {"branch", "ping2"}
    /\ Raise("Exception")
    /\ UNCHANGED <<system, ppid, settings, afk, clock, now,
                   seconds_since_input, last_input, branch, afk0, tickPings,
                   hist, requests>>
    /\ UNCHANGED <<kbVars, mVars, pollVars, owed, budget, winVars>>

\* line 153: sleep(self.settings.poll_time), then the next iteration
Sleep ==
    /\ pc = "sleep"
    /\ Len(hist) < MaxTicks
    /\ clock' = clock + settings.poll_time * MsPerSec
    /\ pc' = "check_parent"
    /\ branch' = "none"
    /\ tickPings' = << >>
    /\ UNCHANGED <<exit, raised, system, ppid, settings, afk, now,
                   seconds_since_input, last_input, afk0, hist, requests>>
    /\ UNCHANGED <<kbVars, mVars, pollVars, owed, budget, winVars>>

\* SIGINT: KeyboardInterrupt is raised between any two statements of the
\* try block (or inside sleep); lines 155-157 log and break.
KeyboardInterrupt ==
    /\ pc \in InTry
    /\ Raise("KeyboardInterrupt")
    /\ UNCHANGED <<system, ppid, settings, afk, clock, now,
                   seconds_since_input, last_input, branch, afk0, tickPings,
                   hist, requests>>
    /\ UNCHANGED <<kbVars, mVars, pollVars, owed, budget, winVars>>

NextLoop ==
    \/ \E testing \in BOOLEAN, args \in ArgPairs : Construct(testing, args)
    \/ Run
    \/ ParentDies
    \/ CheckParent
    \/ \E s \in SampleSet(settings.timeout) : Sample(s)
    \/ SampleFails
    \/ PingNoLongerAFK
    \/ PingBecameAFK
    \/ PingNoChange
    \/ SetAfk
    \/ PingSecond
    \/ PingFails
    \/ Sleep
    \/ KeyboardInterrupt

---------------------------------------------------------------------------
(* listeners.py and unix.py *)

\* A dict object is known by its role: "cur" is the one self.event_data
\* names, "snap" the one the last drain returned, "lost" an older one that
\* only a running callback still refers to.
Aged(ref) == IF ref = "cur" THEN "snap" ELSE IF ref = "snap" THEN "lost" ELSE ref

\* KeyboardListener._reset_data: {"presses": 0}
KbDefault == 0

\* MouseListener._reset_data
MouseDefault ==
    [clicks |-> 0, deltaX |-> 0, deltaY |-> 0, scrollX |-> 0, scrollY |-> 0]

None == <<>>
NoArg == [kind |-> "none"]
Positions == {<<0, 0>>, <<3, 4>>, <<1, 4>>}
ScrollArgs == {<<-1, 0>>, <<0, 2>>}

\* the signed difference
Abs_Signed(n) == n

Abs(n) == IF n < 0 THEN -n ELSE n

\* number of completed on_press callbacks
Presses == Cardinality({i \in 1..Len(kbLog) : kbLog[i] = "press"})

NoPre == [mouse |-> FALSE, kb |-> FALSE, last_activity |-> 0,
          mData |-> MouseDefault, kbData |-> KbDefault,
          done |-> 0, fresh |-> FALSE]

\* A callback has updated its counter and set the flag.  A call that is
\* running and has set last_activity already has noticed input; otherwise
\* the running call or the next one has to (history).
Owe ==
    IF pollPc \in {"idle", "call"}
    THEN owed \cup {IF pollPc = "idle" THEN polls + 1 ELSE polls}
    ELSE IF pollActed THEN owed ELSE owed \cup {polls + 1}

InitAgg ==
    /\ kbFlag = FALSE
    /\ kbData = KbDefault
    /\ kbSnap = KbDefault
    /\ kbPc = "idle"
    /\ kbRef = "none"
    /\ kbVal = 0
    /\ kbCalls = 0
    /\ kbLog = << >>
    /\ kbDrained = 0
    /\ mFlag = FALSE
    /\ mData = MouseDefault
    /\ mPos = None
    /\ mPc = "idle"
    /\ mRef = "none"
    /\ mVal = 0
    /\ mArg = NoArg
    /\ mCalls = 0
    /\ mMoves = << >>
    /\ mDrained = [deltaX |-> 0, deltaY |-> 0]
    /\ pollPc = "idle"
    /\ pollNow = 0
    /\ last_activity = 0
    /\ pollRet = 0
    /\ polls = 0
    /\ pollPre = NoPre
    /\ pollActed = FALSE
    /\ owed = {}

---------------------------------------------------------------------------
(* windows.py: GetTickCount and GetLastInputInfo *)

\* width of a DWORD tick counter, scaled down
TickBits == 2

TickModulus == 2 ^ TickBits

NoCall == [valid |-> FALSE, ret |-> 0, above |-> FALSE, nowrap |-> FALSE,
           quiet |-> FALSE]

NoNote == [nowrap |-> FALSE, quiet |-> FALSE]

InitWin ==
    /\ winTick = 0
    /\ winLastInput = 0
    /\ winWrapped = FALSE
    /\ winInputSince = FALSE
    /\ winPc = "idle"
    /\ winCur = 0
    /\ winLast = 0
    /\ winNote = NoNote
    /\ winRes = NoCall
    /\ winPrev = NoCall

\* one millisecond passes: the DWORD counter advances and wraps
WinTick ==
    /\ winTick' = (winTick + 1) % TickModulus
    /\ winWrapped' = (winWrapped \/ winTick + 1 = TickModulus)
    /\ UNCHANGED <<winLastInput, winInputSince, winPc, winCur, winLast,
                   winNote, winRes, winPrev>>
    /\ UNCHANGED <<loopVars, kbVars, mVars, pollVars, owed, budget>>

\* the user touches an input device: the system records the current tick
WinInput ==
    /\ winLastInput' = winTick
    /\ winWrapped' = FALSE
    /\ winInputSince' = TRUE
    /\ UNCHANGED <<winTick, winPc, winCur, winLast, winNote, winRes, winPrev>>
    /\ UNCHANGED <<loopVars, kbVars, mVars, pollVars, owed, budget>>

\* windows.py line 48, left operand: _getTickCount()
WinGetTickCount ==
    /\ winPc = "idle"
    /\ winCur' = winTick
    /\ winNote' = [nowrap |-> ~winWrapped, quiet |-> ~winInputSince]
    /\ winInputSince' = FALSE
    /\ winPrev' = winRes
    /\ winRes' = NoCall
    /\ winPc' = "last_input"
    /\ UNCHANGED <<winTick, winLastInput, winWrapped, winLast>>
    /\ UNCHANGED <<loopVars, kbVars, mVars, pollVars, owed, budget>>

\* windows.py line 48, right operand: _getLastInputTick(), lines 22-25
WinGetLastInputTick ==
    /\ winPc = "last_input"
    /\ winLast' = winLastInput
    /\ winPc' = "divide"
    /\ UNCHANGED <<winTick, winLastInput, winWrapped, winInputSince, winCur,
                   winNote, winRes, winPrev>>
    /\ UNCHANGED <<loopVars, kbVars, mVars, pollVars, owed, budget>>

\* windows.py line 24: GetLastInputInfo reports failure, the assert raises
WinGetLastInputFails ==
    /\ winPc = "last_input"
    /\ winPc' = "raised"
    /\ UNCHANGED <<winTick, winLastInput, winWrapped, winInputSince, winCur,
                   winLast, winNote, winRes, winPrev>>
    /\ UNCHANGED <<loopVars, kbVars, mVars, pollVars, owed, budget>>

\* the operands the other way round
TickDiff_Swapped(cur, last) == last - cur

\* windows.py line 48: the difference of two Python ints, in ms
TickDiff(cur, last) == cur - last

\* windows.py lines 48-49: subtract, divide by 1000, return
WinReturn ==
    /\ winPc = "divide"
    /\ winCur' = 0
    /\ winLast' = 0
    /\ winRes' = [valid  |-> TRUE,
                   ret    |-> TickDiff(winCur, winLast),
                   above  |-> winCur >= winLast,
                   nowrap |-> winNote.nowrap /\ ~winInputSince,
                   quiet  |-> winNote.quiet /\ ~winInputSince]
    /\ winPc' = "idle"
    /\ UNCHANGED <<winTick, winLastInput, winWrapped, winInputSince, winNote,
                   winPrev>>
    /\ UNCHANGED <<loopVars, kbVars, mVars, pollVars, owed, budget>>

\* how many hook callbacks and polls a run delivers
AggBudget == [kb |-> MaxKbCalls, mouse |-> MaxMouseCalls, polls |-> MaxPolls]

Init == InitLoop /\ InitAgg /\ InitWin /\ budget = AggBudget

---------------------------------------------------------------------------
(* KeyboardListener: the hook thread *)

\* on_press, line 94: load self.event_data and read ["presses"]
OnPressRead ==
    /\ kbPc = "idle"
    /\ kbCalls < budget.kb
    /\ kbCalls' = kbCalls + 1
    /\ kbRef' = "cur"
    /\ kbVal' = kbData
    /\ kbPc' = "press_store"
    /\ UNCHANGED <<kbFlag, kbData, kbSnap, kbLog, kbDrained>>
    /\ UNCHANGED <<loopVars, mVars, pollVars, owed, budget, winVars>>

\* on_press, line 94: store the sum into the dict that was loaded
OnPressStore ==
    /\ kbPc = "press_store"
    /\ kbData' = IF kbRef = "cur" THEN kbVal + 1 ELSE kbData
    /\ kbSnap' = IF kbRef = "snap" THEN kbVal + 1 ELSE kbSnap
    /\ kbPc' = "press_set"
    /\ UNCHANGED <<kbFlag, kbRef, kbVal, kbCalls, kbLog, kbDrained>>
    /\ UNCHANGED <<loopVars, mVars, pollVars, owed, budget, winVars>>

\* on_press, line 95: self.new_event.set()
OnPressSet ==
    /\ kbPc = "press_set"
    /\ kbFlag' = TRUE
    /\ kbPc' = "idle"
    /\ kbRef' = "none"
    /\ kbVal' = 0
    /\ kbLog' = Append(kbLog, "press")
    /\ owed' = Owe
    /\ UNCHANGED <<kbData, kbSnap, kbCalls, kbDrained>>
    /\ UNCHANGED <<loopVars, mVars, pollVars, budget, winVars>>

\* on_release counted like a press
OnRelease_Counts ==
    /\ kbPc = "idle"
    /\ kbCalls < budget.kb
    /\ kbCalls' = kbCalls + 1
    /\ kbLog' = Append(kbLog, "release")
    /\ kbData' = kbData + 1
    /\ kbFlag' = TRUE
    /\ UNCHANGED <<kbSnap, kbPc, kbRef, kbVal, kbDrained>>
    /\ UNCHANGED <<loopVars, mVars, pollVars, owed, budget, winVars>>

\* on_release, lines 97-105: pass
OnRelease ==
    /\ kbPc = "idle"
    /\ kbCalls < budget.kb
    /\ kbCalls' = kbCalls + 1
    /\ kbLog' = Append(kbLog, "release")
    /\ UNCHANGED <<kbFlag, kbData, kbSnap, kbPc, kbRef, kbVal, kbDrained>>
    /\ UNCHANGED <<loopVars, mVars, pollVars, owed, budget, winVars>>

---------------------------------------------------------------------------
(* MouseListener: the hook thread *)

\* self.event_data[key] += n, first half: load the dict and read the key
MouseRead(key, next) ==
    /\ mRef' = "cur"
    /\ mVal' = mData[key]
    /\ mPc' = next

\* second half: store into the dict that was loaded
MouseStore(key, n) ==
    mData' = IF mRef = "cur" THEN [mData EXCEPT ![key] = mVal + n] ELSE mData

\* on_move, lines 144-151: newpos, self.pos, delta, read deltaX
OnMoveStart(newpos) ==
    /\ mPc = "idle"
    /\ mCalls < budget.mouse
    /\ mCalls' = mCalls + 1
    /\ LET pos == IF mPos = None THEN newpos ELSE mPos
       IN  /\ mPos' = pos
           /\ mArg' = [kind |-> "move", newpos |-> newpos,
                       dx |-> Abs(pos[1] - newpos[1]),
                       dy |-> Abs(pos[2] - newpos[2])]
    /\ MouseRead("deltaX", "move_storex")
    /\ UNCHANGED <<mFlag, mData, mMoves, mDrained>>
    /\ UNCHANGED <<loopVars, kbVars, pollVars, owed, budget, winVars>>

\* on_move, line 151: store deltaX
OnMoveStoreX ==
    /\ mPc = "move_storex"
    /\ MouseStore("deltaX", mArg.dx)
    /\ mPc' = "move_ready"
    /\ UNCHANGED <<mFlag, mPos, mRef, mVal, mArg, mCalls, mMoves, mDrained>>
    /\ UNCHANGED <<loopVars, kbVars, pollVars, owed, budget, winVars>>

\* on_move, line 152: read deltaY
OnMoveReadY ==
    /\ mPc = "move_ready"
    /\ MouseRead("deltaY", "move_storey")
    /\ UNCHANGED <<mFlag, mData, mPos, mArg, mCalls, mMoves, mDrained>>
    /\ UNCHANGED <<loopVars, kbVars, pollVars, owed, budget, winVars>>

\* on_move, lines 152-154: store deltaY, self.pos = newpos
OnMoveStoreY ==
    /\ mPc = "move_storey"
    /\ MouseStore("deltaY", mArg.dy)
    /\ mPos' = mArg.newpos
    /\ mPc' = "set"
    /\ UNCHANGED <<mFlag, mRef, mVal, mArg, mCalls, mMoves, mDrained>>
    /\ UNCHANGED <<loopVars, kbVars, pollVars, owed, budget, winVars>>

\* on_click, lines 169-170: if down, read clicks
OnClickStart(down) ==
    /\ mPc = "idle"
    /\ mCalls < budget.mouse
    /\ mCalls' = mCalls + 1
    /\ IF down
       THEN /\ MouseRead("clicks", "click_store")
            /\ mArg' = [kind |-> "click"]
       ELSE UNCHANGED <<mRef, mVal, mPc, mArg>>
    /\ UNCHANGED <<mFlag, mData, mPos, mMoves, mDrained>>
    /\ UNCHANGED <<loopVars, kbVars, pollVars, owed, budget, winVars>>

\* on_click, line 170: store clicks
OnClickStore ==
    /\ mPc = "click_store"
    /\ MouseStore("clicks", 1)
    /\ mPc' = "set"
    /\ UNCHANGED <<mFlag, mPos, mRef, mVal, mArg, mCalls, mMoves, mDrained>>
    /\ UNCHANGED <<loopVars, kbVars, pollVars, owed, budget, winVars>>

\* on_scroll, line 183: read scrollX
OnScrollStart(scroll) ==
    /\ mPc = "idle"
    /\ mCalls < budget.mouse
    /\ mCalls' = mCalls + 1
    /\ mArg' = [kind |-> "scroll", sx |-> Abs(scroll[1]), sy |-> Abs(scroll[2])]
    /\ MouseRead("scrollX", "scroll_storex")
    /\ UNCHANGED <<mFlag, mData, mPos, mMoves, mDrained>>
    /\ UNCHANGED <<loopVars, kbVars, pollVars, owed, budget, winVars>>

\* on_scroll, line 183: store scrollX
OnScrollStoreX ==
    /\ mPc = "scroll_storex"
    /\ MouseStore("scrollX", mArg.sx)
    /\ mPc' = "scroll_ready"
    /\ UNCHANGED <<mFlag, mPos, mRef, mVal, mArg, mCalls, mMoves, mDrained>>
    /\ UNCHANGED <<loopVars, kbVars, pollVars, owed, budget, winVars>>

\* on_scroll, line 184: read scrollY
OnScrollReadY ==
    /\ mPc = "scroll_ready"
    /\ MouseRead("scrollY", "scroll_storey")
    /\ UNCHANGED <<mFlag, mData, mPos, mArg, mCalls, mMoves, mDrained>>
    /\ UNCHANGED <<loopVars, kbVars, pollVars, owed, budget, winVars>>

\* on_scroll, line 184: store scrollY
OnScrollStoreY ==
    /\ mPc = "scroll_storey"
    /\ MouseStore("scrollY", mArg.sy)
    /\ mPc' = "set"
    /\ UNCHANGED <<mFlag, mPos, mRef, mVal, mArg, mCalls, mMoves, mDrained>>
    /\ UNCHANGED <<loopVars, kbVars, pollVars, owed, budget, winVars>>

\* lines 155, 171, 185: self.new_event.set()
MouseSet ==
    /\ mPc = "set"
    /\ mFlag' = TRUE
    /\ mPc' = "idle"
    /\ mRef' = "none"
    /\ mVal' = 0
    /\ mArg' = NoArg
    /\ mMoves' = IF mArg.kind = "move" THEN Append(mMoves, mArg.newpos)
                                      ELSE mMoves
    /\ owed' = Owe
    /\ UNCHANGED <<mData, mPos, mCalls, mDrained>>
    /\ UNCHANGED <<loopVars, kbVars, pollVars, budget, winVars>>

---------------------------------------------------------------------------
(* LastInputUnix.seconds_since_last_input: the poll thread *)

\* the caller sleeps between two calls (unix.py line 67, afk.py line 153)
PollSleep ==
    /\ pollPc = "idle"
    /\ polls < budget.polls
    /\ polls' = polls + 1
    /\ clock' = clock + MsPerSec
    /\ pollPc' = "call"
    /\ UNCHANGED <<pollNow, last_activity, pollRet, pollPre, pollActed>>
    /\ UNCHANGED <<pc, exit, raised, system, ppid, settings, afk, now,
                   seconds_since_input, last_input, branch, afk0, tickPings,
                   hist, requests>>
    /\ UNCHANGED <<kbVars, mVars, owed, budget, winVars>>

\* unix.py line 33: now = datetime.now()
PollCall ==
    /\ pollPc = "call"
    /\ pollNow' = clock
    /\ pollPc' = "has_mouse"
    /\ pollPre' = [mouse |-> mFlag, kb |-> kbFlag, last_activity |-> last_activity,
                    mData |-> mData, kbData |-> kbData,
                    done |-> Presses, fresh |-> Presses > pollPre.done]
    /\ pollActed' = FALSE
    /\ UNCHANGED <<last_activity, pollRet, polls>>
    /\ UNCHANGED <<loopVars, kbVars, mVars, owed, budget, winVars>>

\* unix.py line 35, left operand: self.mouseListener.has_new_event()
PollHasMouse ==
    /\ pollPc = "has_mouse"
    /\ pollPc' = IF mFlag THEN "act" ELSE "has_kb"
    /\ UNCHANGED <<pollNow, last_activity, pollRet, polls, pollPre,
                   pollActed>>
    /\ UNCHANGED <<loopVars, kbVars, mVars, owed, budget, winVars>>

\* only the mouse listener is asked
PollHasKb_Skip ==
    /\ pollPc = "has_kb"
    /\ pollPc' = "ret"
    /\ UNCHANGED <<pollNow, last_activity, pollRet, polls, pollPre,
                   pollActed>>
    /\ UNCHANGED <<loopVars, kbVars, mVars, owed, budget, winVars>>

\* unix.py line 35, right operand: self.keyboardListener.has_new_event()
PollHasKb ==
    /\ pollPc = "has_kb"
    /\ pollPc' = IF kbFlag THEN "act" ELSE "ret"
    /\ UNCHANGED <<pollNow, last_activity, pollRet, polls, pollPre,
                   pollActed>>
    /\ UNCHANGED <<loopVars, kbVars, mVars, owed, budget, winVars>>

\* the branch taken without recording the activity
PollAct_Stale ==
    /\ pollPc = "act"
    /\ last_activity' = last_activity
    /\ pollPc' = "m_clear"
    /\ pollActed' = TRUE
    /\ owed' = {h \in owed : h < polls}
    /\ UNCHANGED <<pollNow, pollRet, polls, pollPre>>
    /\ UNCHANGED <<loopVars, kbVars, mVars, budget, winVars>>

\* unix.py line 37: self.last_activity = now
PollAct ==
    /\ pollPc = "act"
    /\ last_activity' = pollNow
    /\ pollPc' = "m_clear"
    /\ pollActed' = TRUE
    /\ owed' = {h \in owed : h < polls}
    /\ UNCHANGED <<pollNow, pollRet, polls, pollPre>>
    /\ UNCHANGED <<loopVars, kbVars, mVars, budget, winVars>>

\* mouseListener.next_event, line 48: self.new_event.clear()
MouseClear ==
    /\ pollPc = "m_clear"
    /\ mFlag' = FALSE
    /\ pollPc' = "m_data"
    /\ UNCHANGED <<mData, mPos, mPc, mRef, mVal, mArg, mCalls, mMoves, mDrained>>
    /\ UNCHANGED <<pollNow, last_activity, pollRet, polls, pollPre,
                   pollActed>>
    /\ UNCHANGED <<loopVars, kbVars, owed, budget, winVars>>

\* next_event, line 49: data = self.event_data
MouseTake ==
    /\ pollPc = "m_data"
    /\ pollPc' = "m_reset"
    /\ UNCHANGED <<pollNow, last_activity, pollRet, polls, pollPre,
                   pollActed>>
    /\ UNCHANGED <<loopVars, kbVars, mVars, owed, budget, winVars>>

\* a reset that also forgets the cursor position
MouseResetAssign_ForgetsPos ==
    /\ pollPc = "m_reset"
    /\ mData' = MouseDefault
    /\ mRef' = Aged(mRef)
    /\ mPos' = None
    /\ mDrained' = [deltaX |-> mDrained.deltaX + mData.deltaX,
                     deltaY |-> mDrained.deltaY + mData.deltaY]
    /\ pollPc' = "m_update"
    /\ UNCHANGED <<mFlag, mPc, mVal, mArg, mCalls, mMoves>>
    /\ UNCHANGED <<pollNow, last_activity, pollRet, polls, pollPre,
                   pollActed>>
    /\ UNCHANGED <<loopVars, kbVars, owed, budget, winVars>>

\* MouseListener._reset_data, line 121: self.event_data = defaultdict(int)
MouseResetAssign ==
    /\ pollPc = "m_reset"
    /\ mData' = MouseDefault
    /\ mRef' = Aged(mRef)
    /\ mDrained' = [deltaX |-> mDrained.deltaX + mData.deltaX,
                     deltaY |-> mDrained.deltaY + mData.deltaY]
    /\ pollPc' = "m_update"
    /\ UNCHANGED <<mFlag, mPos, mPc, mVal, mArg, mCalls, mMoves>>
    /\ UNCHANGED <<pollNow, last_activity, pollRet, polls, pollPre,
                   pollActed>>
    /\ UNCHANGED <<loopVars, kbVars, owed, budget, winVars>>

\* MouseListener._reset_data, lines 122-124: self.event_data.update({...})
MouseResetUpdate ==
    /\ pollPc = "m_update"
    /\ mData' = MouseDefault
    /\ pollPc' = "m_return"
    /\ UNCHANGED <<mFlag, mPos, mPc, mRef, mVal, mArg, mCalls, mMoves, mDrained>>
    /\ UNCHANGED <<pollNow, last_activity, pollRet, polls, pollPre,
                   pollActed>>
    /\ UNCHANGED <<loopVars, kbVars, owed, budget, winVars>>

\* next_event, line 52: return data
MouseReturn ==
    /\ pollPc = "m_return"
    /\ pollPc' = "k_clear"
    /\ UNCHANGED <<pollNow, last_activity, pollRet, polls, pollPre,
                   pollActed>>
    /\ UNCHANGED <<loopVars, kbVars, mVars, owed, budget, winVars>>

\* keyboardListener.next_event, line 48: self.new_event.clear()
KbClear ==
    /\ pollPc = "k_clear"
    /\ kbFlag' = FALSE
    /\ pollPc' = "k_data"
    /\ UNCHANGED <<kbData, kbSnap, kbPc, kbRef, kbVal, kbCalls, kbLog,
                   kbDrained>>
    /\ UNCHANGED <<pollNow, last_activity, pollRet, polls, pollPre,
                   pollActed>>
    /\ UNCHANGED <<loopVars, mVars, owed, budget, winVars>>

\* next_event, line 49: data = self.event_data
KbTake ==
    /\ pollPc = "k_data"
    /\ pollPc' = "k_reset"
    /\ UNCHANGED <<pollNow, last_activity, pollRet, polls, pollPre,
                   pollActed>>
    /\ UNCHANGED <<loopVars, kbVars, mVars, owed, budget, winVars>>

\* KeyboardListener._reset_data, line 85: self.event_data = {"presses": 0}
KbReset ==
    /\ pollPc = "k_reset"
    /\ kbSnap' = kbData
    /\ kbData' = KbDefault
    /\ kbRef' = Aged(kbRef)
    /\ pollPc' = "k_return"
    /\ UNCHANGED <<kbFlag, kbPc, kbVal, kbCalls, kbLog, kbDrained>>
    /\ UNCHANGED <<pollNow, last_activity, pollRet, polls, pollPre,
                   pollActed>>
    /\ UNCHANGED <<loopVars, mVars, owed, budget, winVars>>

\* next_event, line 52: return data
KbReturn ==
    /\ pollPc = "k_return"
    /\ pollPc' = "ret"
    /\ kbDrained' = kbDrained + kbSnap
    /\ UNCHANGED <<kbFlag, kbData, kbSnap, kbPc, kbRef, kbVal, kbCalls, kbLog>>
    /\ UNCHANGED <<pollNow, last_activity, pollRet, polls, pollPre,
                   pollActed>>
    /\ UNCHANGED <<loopVars, mVars, owed, budget, winVars>>

\* the time since the epoch of the model instead of since the activity
PollReturn_SinceStart ==
    /\ pollPc = "ret"
    /\ pollRet' = pollNow
    /\ pollPc' = "idle"
    /\ UNCHANGED <<pollNow, last_activity, polls, pollPre, pollActed>>
    /\ UNCHANGED <<loopVars, kbVars, mVars, owed, budget, winVars>>

\* unix.py line 41: return (now - self.last_activity).total_seconds()
PollReturn ==
    /\ pollPc = "ret"
    /\ pollRet' = pollNow - last_activity
    /\ pollPc' = "idle"
    /\ UNCHANGED <<pollNow, last_activity, polls, pollPre, pollActed>>
    /\ UNCHANGED <<loopVars, kbVars, mVars, owed, budget, winVars>>

NextAgg ==
    \/ OnPressRead
    \/ OnPressStore
    \/ OnPressSet
    \/ OnRelease
    \/ \E p \in Positions : OnMoveStart(p)
    \/ OnMoveStoreX
    \/ OnMoveReadY
    \/ OnMoveStoreY
    \/ \E down \in BOOLEAN : OnClickStart(down)
    \/ OnClickStore
    \/ \E sc \in ScrollArgs : OnScrollStart(sc)
    \/ OnScrollStoreX
    \/ OnScrollReadY
    \/ OnScrollStoreY
    \/ MouseSet
    \/ PollSleep
    \/ PollCall
    \/ PollHasMouse
    \/ PollHasKb
    \/ PollAct
    \/ MouseClear
    \/ MouseTake
    \/ MouseResetAssign
    \/ MouseResetUpdate
    \/ MouseReturn
    \/ KbClear
    \/ KbTake
    \/ KbReset
    \/ KbReturn
    \/ PollReturn

---------------------------------------------------------------------------
(* Specifications *)

\* The watcher process: construction, run() and heartbeat_loop.
Next == NextLoop

Spec == Init /\ [][Next]_vars

\* The watcher process with an idle source that agrees with the clock:
\* the first sample is arbitrary; afterwards either no input occurred since
\* the previous sample, which then grew by the time that passed, or the
\* last input lies after the previous sample.
ConsistentSamples ==
    IF now = 0
    THEN SampleSet(settings.timeout)
    ELSE {seconds_since_input + (clock - now), 0, (clock - now) - 1}

NextClock ==
    \/ \E testing \in BOOLEAN, args \in ArgPairs : Construct(testing, args)
    \/ Run
    \/ ParentDies
    \/ CheckParent
    \/ \E s \in ConsistentSamples : Sample(s)
    \/ SampleFails
    \/ PingNoLongerAFK
    \/ PingBecameAFK
    \/ PingNoChange
    \/ SetAfk
    \/ PingSecond
    \/ PingFails
    \/ Sleep
    \/ KeyboardInterrupt

SpecClock == Init /\ [][NextClock]_vars

\* The watcher process on the event-hook idle source: heartbeat_loop calls
\* LastInputUnix.seconds_since_last_input once per tick while the keyboard
\* hook thread delivers key presses.  The parent stays alive and nothing
\* raises, so the loop keeps ticking; short timeouts come from the command
\* line.
MaxAfkKeys == 2
MaxAfkTicks == 4

ShortArgs == {<<1, 1>>, <<2, 1>>}

\* the user presses a key up to MaxAfkKeys times and then stops
Hooked == {[kb |-> k, mouse |-> 0, polls |-> MaxAfkTicks] : k \in 0..MaxAfkKeys}

InitAfk ==
    /\ InitLoop
    /\ InitAgg
    /\ InitWin
    /\ system = "Linux"
    /\ ppid # 1
    /\ budget \in Hooked

\* afk.py line 120: heartbeat_loop enters seconds_since_last_input()
SampleCall ==
    /\ pc = "sample"
    /\ pollPc = "idle"
    /\ polls = Len(hist)
    /\ polls < budget.polls
    /\ polls' = polls + 1
    /\ pollPc' = "call"
    /\ UNCHANGED <<pollNow, last_activity, pollRet, pollPre, pollActed>>
    /\ UNCHANGED <<loopVars, kbVars, mVars, owed, budget, winVars>>

\* afk.py lines 119-121 with the value the call returned
SampleUnix ==
    /\ pollPc = "idle"
    /\ polls = Len(hist) + 1
    /\ Sample(pollRet)

\* the steps of the main thread
MainThread ==
    \/ \E args \in ShortArgs : Construct(TRUE, args)
    \/ Run
    \/ CheckParent
    \/ SampleCall
    \/ PollCall
    \/ PollHasMouse
    \/ PollHasKb
    \/ PollAct
    \/ MouseClear
    \/ MouseTake
    \/ MouseResetAssign
    \/ MouseResetUpdate
    \/ MouseReturn
    \/ KbClear
    \/ KbTake
    \/ KbReset
    \/ KbReturn
    \/ PollReturn
    \/ SampleUnix
    \/ PingNoLongerAFK
    \/ PingBecameAFK
    \/ PingNoChange
    \/ SetAfk
    \/ PingSecond
    \/ Sleep

\* the steps of the keyboard hook thread
HookThread ==
    \/ OnPressRead
    \/ OnPressStore
    \/ OnPressSet

NextAfk == MainThread \/ HookThread

\* The main thread is scheduled whenever it can run and a callback that
\* has begun runs to its end; whether a key is pressed is up to the user.
SpecAfk ==
    /\ InitAfk
    /\ [][NextAfk]_vars
    /\ WF_vars(MainThread)
    /\ WF_vars(OnPressStore \/ OnPressSet)

\* The event-hook idle source: hook threads against the poll thread.
InitUnix == Init /\ system = "Linux" /\ ppid # 1

SpecAgg == InitUnix /\ [][NextAgg]_vars

\* The system-call idle source against the operating system's counters.
NoHooks == [kb |-> 0, mouse |-> 0, polls |-> 0]

InitWindows ==
    /\ InitLoop
    /\ InitAgg
    /\ InitWin
    /\ system = "Windows"
    /\ ppid # 1
    /\ budget = NoHooks

NextWin ==
    \/ WinTick
    \/ WinInput
    \/ WinGetTickCount
    \/ WinGetLastInputTick
    \/ WinGetLastInputFails
    \/ WinReturn

SpecWin == InitWindows /\ [][NextWin]_vars

\* The mouse listener alone: callbacks one after another, never drained.
MaxMoves == 3

MouseOnly == [kb |-> 0, mouse |-> MaxMoves, polls |-> 0]

InitMouse ==
    /\ InitLoop
    /\ InitAgg
    /\ InitWin
    /\ system = "Linux"
    /\ ppid # 1
    /\ budget = MouseOnly

NextMouse ==
    \/ \E p \in Positions : OnMoveStart(p)
    \/ OnMoveStoreX
    \/ OnMoveReadY
    \/ OnMoveStoreY
    \/ \E down \in BOOLEAN : OnClickStart(down)
    \/ OnClickStore
    \/ \E sc \in ScrollArgs : OnScrollStart(sc)
    \/ OnScrollStoreX
    \/ OnScrollReadY
    \/ OnScrollStoreY
    \/ MouseSet

SpecMouse == InitMouse /\ [][NextMouse]_vars

\* The event-hook idle source with no concurrent callback: a callback runs
\* only between two calls of seconds_since_last_input, and a call only
\* while no callback is running.
MaxSeqKeys == 3
MaxSeqClicks == 1
MaxSeqPolls == 2

Sequential == [kb |-> MaxSeqKeys, mouse |-> MaxSeqClicks, polls |-> MaxSeqPolls]

InitSeq ==
    /\ InitLoop
    /\ InitAgg
    /\ InitWin
    /\ system = "Linux"
    /\ ppid # 1
    /\ budget = Sequential

BetweenCalls == pollPc \in {"idle", "call"}

NoCallback == kbPc = "idle" /\ mPc = "idle"

NextSeq ==
    \/ BetweenCalls /\ OnPressRead
    \/ BetweenCalls /\ OnPressStore
    \/ BetweenCalls /\ OnPressSet
    \/ BetweenCalls /\ OnRelease
    \/ BetweenCalls /\ \E down \in BOOLEAN : OnClickStart(down)
    \/ BetweenCalls /\ OnClickStore
    \/ BetweenCalls /\ MouseSet
    \/ NoCallback /\ PollSleep
    \/ NoCallback /\ PollCall
    \/ NoCallback /\ PollHasMouse
    \/ NoCallback /\ PollHasKb
    \/ NoCallback /\ PollAct
    \/ NoCallback /\ MouseClear
    \/ NoCallback /\ MouseTake
    \/ NoCallback /\ MouseResetAssign
    \/ NoCallback /\ MouseResetUpdate
    \/ NoCallback /\ MouseReturn
    \/ NoCallback /\ KbClear
    \/ NoCallback /\ KbTake
    \/ NoCallback /\ KbReset
    \/ NoCallback /\ KbReturn
    \/ NoCallback /\ PollReturn

SpecSeq == InitSeq /\ [][NextSeq]_vars

\* The mouse listener drained between its callbacks: a move runs only
\* between two calls of seconds_since_last_input, a call only while no
\* callback is running.
MaxDrainMoves == 3
MaxDrainPolls == 2

Drained == [kb |-> 0, mouse |-> MaxDrainMoves, polls |-> MaxDrainPolls]

InitDrain ==
    /\ InitLoop
    /\ InitAgg
    /\ InitWin
    /\ system = "Linux"
    /\ ppid # 1
    /\ budget = Drained

NextDrain ==
    \/ BetweenCalls /\ \E p \in Positions : OnMoveStart(p)
    \/ BetweenCalls /\ OnMoveStoreX
    \/ BetweenCalls /\ OnMoveReadY
    \/ BetweenCalls /\ OnMoveStoreY
    \/ BetweenCalls /\ MouseSet
    \/ NoCallback /\ PollSleep
    \/ NoCallback /\ PollCall
    \/ NoCallback /\ PollHasMouse
    \/ NoCallback /\ PollHasKb
    \/ NoCallback /\ PollAct
    \/ NoCallback /\ MouseClear
    \/ NoCallback /\ MouseTake
    \/ NoCallback /\ MouseResetAssign
    \/ NoCallback /\ MouseResetUpdate
    \/ NoCallback /\ MouseReturn
    \/ NoCallback /\ KbClear
    \/ NoCallback /\ KbTake
    \/ NoCallback /\ KbReset
    \/ NoCallback /\ KbReturn
    \/ NoCallback /\ PollReturn

SpecDrain == InitDrain /\ [][NextDrain]_vars

\* The event-hook idle source under every interleaving of a keyboard hook
\* thread, a mouse hook thread and the poll thread.
MaxRaceKeys == 2
MaxRaceClicks == 1
MaxRacePolls == 2

Racing == [kb |-> MaxRaceKeys, mouse |-> MaxRaceClicks, polls |-> MaxRacePolls]

InitRace ==
    /\ InitLoop
    /\ InitAgg
    /\ InitWin
    /\ system = "Linux"
    /\ ppid # 1
    /\ budget = Racing

NextRace ==
    \/ OnPressRead
    \/ OnPressStore
    \/ OnPressSet
    \/ OnClickStart(TRUE)
    \/ OnClickStore
    \/ MouseSet
    \/ PollSleep
    \/ PollCall
    \/ PollHasMouse
    \/ PollHasKb
    \/ PollAct
    \/ MouseClear
    \/ MouseTake
    \/ MouseResetAssign
    \/ MouseResetUpdate
    \/ MouseReturn
    \/ KbClear
    \/ KbTake
    \/ KbReset
    \/ KbReturn
    \/ PollReturn

SpecRace == InitRace /\ [][NextRace]_vars

---------------------------------------------------------------------------
(* Properties of heartbeat_loop *)

Timeout == settings.timeout * MsPerSec

\* the current tick has sampled
InTick ==
    \/ pc \in {"branch", "set_afk", "ping2", "sleep"}
    \/ pc = "done" /\ tickPings # << >>

Proj(p) == <<p.status, p.timestamp>>

IsPrefix(s, t) ==
    /\ Len(s) <= Len(t)
    /\ \A i \in 1..Len(s) : Proj(s[i]) = t[i]

\* The heartbeats of the current tick are `expected` so far, and all of
\* them, with afk = after, once the tick reaches its sleep.
TickEmits(expected, after) ==
    /\ IsPrefix(tickPings, expected)
    /\ pc = "sleep" => Len(tickPings) = Len(expected) /\ afk = after

C2_BothNotAfk ==
    (InTick /\ afk0 /\ seconds_since_input < Timeout) =>
        TickEmits(<< <<"not-afk", now - seconds_since_input>>,
                     <<"not-afk", now - seconds_since_input + td1ms>> >>,
                  FALSE)

\* C2 amended: such a tick ends NotAFK having sent exactly two heartbeats,
\* the first "afk" at last_input = now - sample, the second "not-afk"
\* exactly 1 ms later.
C2_NoLongerAFK ==
    (InTick /\ afk0 /\ seconds_since_input < Timeout) =>
        TickEmits(<< <<"afk", now - seconds_since_input>>,
                     <<"not-afk", now - seconds_since_input + td1ms>> >>,
                  FALSE)

C2_Witness ==
    /\ pc = "sleep" /\ afk0 /\ seconds_since_input = Timeout - 1
    /\ ~afk /\ Len(tickPings) = 2

\* C3 as claimed: an error of the idle source or of a heartbeat submission
\* does not end the loop and does not leave it.
C3_ErrorsStayInTick ==
    raised = "Exception" => pc \in InTry /\ exit = "none"

\* C4: after every completed tick afk holds exactly if that tick's sample
\* was >= timeout, and the tick sent two heartbeats if it changed the state
\* and one otherwise; the loop starts NotAFK.
C4_StateFollowsSample ==
    \A i \in 1..Len(hist) :
        /\ hist[i].before = (IF i = 1 THEN FALSE ELSE hist[i - 1].after)
        /\ hist[i].after = (hist[i].sample >= Timeout)
        /\ hist[i].count = (IF hist[i].after # hist[i].before THEN 2 ELSE 1)

\* timeout = 300, samples 0, 0, 310, 310, 0
C4_Witness ==
    /\ settings.timeout = 300
    /\ Len(hist) = 5
    /\ [i \in 1..5 |-> hist[i].sample] = <<0, 0, 310000, 310000, 0>>
    /\ [i \in 1..5 |-> hist[i].after] = <<FALSE, FALSE, TRUE, TRUE, FALSE>>
    /\ [i \in 1..5 |-> hist[i].count] = <<1, 1, 2, 1, 2>>

\* C5: a tick that starts NotAFK with a sample < timeout stays NotAFK and
\* sends exactly one heartbeat, "not-afk" at last_input = now - sample.
C5_StaysNotAFK ==
    (InTick /\ ~afk0 /\ seconds_since_input < Timeout) =>
        TickEmits(<< <<"not-afk", now - seconds_since_input>> >>, FALSE)

C5_Witness ==
    /\ pc = "sleep" /\ ~afk0 /\ seconds_since_input = Timeout - 1
    /\ ~afk /\ Len(tickPings) = 1

\* C6: a tick that starts AFK with a sample >= timeout stays AFK and sends
\* exactly one heartbeat, "afk" at the sampling instant now.
C6_StaysAFK ==
    (InTick /\ afk0 /\ seconds_since_input >= Timeout) =>
        TickEmits(<< <<"afk", now>> >>, TRUE)

C6_Witness ==
    /\ pc = "sleep" /\ afk0 /\ seconds_since_input = Timeout
    /\ afk /\ Len(tickPings) = 1

\* C7: a tick that samples the same value as the tick before it leaves afk
\* as it was and sends exactly one heartbeat, however often that repeats.
C7_Idempotent ==
    \A i \in 2..Len(hist) :
        hist[i].sample = hist[i - 1].sample =>
            /\ hist[i].after = hist[i - 1].after
            /\ hist[i].count = 1

\* four ticks with the same sample above the timeout
C7_Witness ==
    /\ Len(hist) >= 4
    /\ \A i \in 1..4 : hist[i].sample = Timeout + SampleOver * MsPerSec

RECURSIVE SumCounts(_)
SumCounts(h) == IF h = << >> THEN 0 ELSE h[1].count + SumCounts(Tail(h))

Heartbeats == SelectSeq(requests, LAMBDA r : r.op = "heartbeat")

Transitions == {"no_longer_afk", "became_afk"}

\* C8 as claimed: when the loop is cancelled (user interrupt or parent
\* death), a tick that sent the first heartbeat of a transition has also
\* sent the second and reassigned afk.
C8_NeverMidTick ==
    (pc = "done" /\ exit \in {"interrupt", "parent_died"}
                 /\ branch \in Transitions) =>
        Len(tickPings) = 2 /\ afk # afk0

\* C8 amended: parent death ends the loop only at the start of a tick: the
\* tick it ends has neither sampled nor sent anything and every earlier
\* tick sent all its heartbeats and reassigned afk.  (A user interrupt
\* takes effect wherever it arrives, also between the two heartbeats of a
\* transition.)
C8_ParentDeathAtTickStart ==
    exit = "parent_died" =>
        /\ tickPings = << >> /\ branch = "none"
        /\ Len(Heartbeats) = SumCounts(hist)
        /\ Len(hist) > 0 => afk = hist[Len(hist)].after

C8_Witness ==
    /\ exit = "parent_died"
    /\ \E i \in 1..Len(hist) : hist[i].count = 2

\* C9: a user interrupt ends the loop without an error leaving it; on
\* Darwin and Linux a parent pid of 1 at the start of a tick ends the loop
\* before the idle source is sampled, no heartbeat is sent in that tick or
\* later; on other platforms the parent pid never ends the loop; an ended
\* loop stays ended.
C9_CleanTermination ==
    /\ [](raised = "KeyboardInterrupt" => pc = "done" /\ exit = "interrupt")
    /\ [](exit = "parent_died" =>
            /\ system \in {"Darwin", "Linux"} /\ ppid = 1
            /\ tickPings = << >> /\ now < clock)
    /\ [][(pc = "check_parent" /\ pc' # pc /\ ppid = 1
                /\ system \in {"Darwin", "Linux"}) =>
            pc' = "done" /\ exit' \in {"parent_died", "interrupt"}]_vars
    /\ [][pc = "done" =>
            UNCHANGED <<pc, exit, afk, requests, tickPings, hist>>]_vars

C9_Witness ==
    /\ exit = "parent_died" /\ system = "Linux"
    /\ Len(hist) > 0 /\ Len(Heartbeats) = SumCounts(hist)

---------------------------------------------------------------------------
(* Properties of the event aggregators *)

\* C10 as claimed: when next_event returns, the new-event flag is clear
\* and every counter of the accumulator has its reset default.
C10_PostDrain ==
    /\ pollPc = "k_return" => ~kbFlag /\ kbData = KbDefault
    /\ pollPc = "m_return" => ~mFlag /\ mData = MouseDefault

---------------------------------------------------------------------------
\* C12: Settings construction enforces timeout >= poll_time.  Whenever the
\* construction has been attempted, either a Settings object exists and
\* satisfies timeout >= poll_time, or the AssertionError was raised; and in
\* that case the process is over with no Settings object, no bucket
\* creation, no idle sample and no heartbeat.
C12_SettingsEnforced ==
    /\ settings # NoSettings => settings.timeout >= settings.poll_time
    /\ (pc # "construct" /\ raised # "AssertionError") =>
           /\ settings # NoSettings
           /\ settings.timeout >= settings.poll_time
    /\ raised = "AssertionError" =>
           /\ pc = "done"
           /\ exit = "error"
           /\ settings = NoSettings
           /\ requests = << >>
           /\ hist = << >>
           /\ tickPings = << >>
           /\ now = 0
           /\ clock = 0

\* timeout=5, poll_time=10 was rejected
C12_Witness == raised = "AssertionError" /\ pc = "done"

\* C13: every heartbeat submitted by ping has pulsetime = timeout +
\* poll_time, is queued, goes to the bucket that run() created, has app
\* "afk", title "Idle time" and duration 0, and has status "afk" exactly
\* when the loop's afk is true at the moment of the call.
C13_PingPayload ==
    [][(Len(requests') = Len(requests) + 1 /\ pc # "run") =>
          LET r == requests'[Len(requests')]
          IN  /\ r.op = "heartbeat"
              /\ r.pulsetime = settings.timeout + settings.poll_time
              /\ r.queued = TRUE
              /\ r.bucket = CreateBucket.bucket
              /\ r.bucket = requests[1].bucket
              /\ r.app = "afk"
              /\ r.title = "Idle time"
              /\ r.duration = 0
              /\ (r.status = "afk") <=> afk
              /\ (r.status = "not-afk") <=> ~afk]_vars

\* heartbeats of both statuses have been submitted
C13_Witness ==
    /\ \E i \in 1..Len(Heartbeats) : Heartbeats[i].status = "afk"
    /\ \E i \in 1..Len(Heartbeats) : Heartbeats[i].status = "not-afk"

\* C14: the bucket is created, queued, exactly once, before the first idle
\* sample and before every heartbeat: nothing is requested before run(),
\* and from then on the first request is the bucket creation and all the
\* others are heartbeats.
C14_BucketFirst ==
    /\ pc \in {"construct", "run"} =>
           requests = << >> /\ hist = << >> /\ now = 0
    /\ (pc \notin {"construct", "run"} /\ raised # "AssertionError") =>
           /\ Len(requests) >= 1
           /\ requests[1] = CreateBucket
           /\ requests[1].queued
           /\ \A i \in 2..Len(requests) : requests[i].op = "heartbeat"
    /\ (hist # << >> \/ tickPings # << >> \/ now # 0) =>
           (requests # << >> /\ requests[1].op = "create_bucket")

\* a sample and a heartbeat have followed the bucket creation
C14_Witness ==
    /\ Len(requests) >= 2
    /\ requests[1] = CreateBucket
    /\ requests[2].op = "heartbeat"
    /\ hist # << >>

\* no keyboard callback and no seconds_since_last_input call is running
Quiet == kbPc = "idle" /\ mPc = "idle" /\ pollPc \in {"idle", "call"}

\* C11: each key press is counted exactly once.  When no callback and no
\* drain is running, the presses of all snapshots, as read when next_event
\* returned, plus the accumulator's current counter equal the number of
\* completed on_press callbacks, and the new-event flag is set whenever the
\* current counter is not zero.
C11_EachPressOnce ==
    Quiet =>
        /\ kbDrained + kbData = Presses
        /\ (kbData # KbDefault => kbFlag)

\* sum over consecutive positions of the distance along one axis
RECURSIVE PathLength(_, _)
PathLength(path, axis) ==
    IF Len(path) <= 1
    THEN 0
    ELSE LET d == path[2][axis] - path[1][axis]
         IN  (IF d < 0 THEN -d ELSE d) + PathLength(Tail(path), axis)

\* C15: with no drain in between, after the move callbacks p0, ..., pn have
\* completed deltaX is the sum of |x_i - x_(i-1)| and deltaY the sum of
\* |y_i - y_(i-1)| (the first move contributes zero), whatever clicks and
\* scrolls came in between, and the new-event flag is set once any move
\* has completed.
C15_PathLength ==
    mPc = "idle" =>
        /\ mData.deltaX = PathLength(mMoves, 1)
        /\ mData.deltaY = PathLength(mMoves, 2)
        /\ (mMoves # << >> => mFlag)
        /\ (mMoves # << >> => mPos = mMoves[Len(mMoves)])

\* moves (0,0) -> (3,4) -> (1,4) give deltaX = 5, deltaY = 4
C15_Witness ==
    /\ mPc = "idle"
    /\ mMoves = << <<0, 0>>, <<3, 4>>, <<1, 4>> >>
    /\ mData.deltaX = 5
    /\ mData.deltaY = 4
    /\ mFlag

\* C16: the keyboard accumulator counts presses only.  With no concurrent
\* callback, the snapshot that next_event is about to return holds the
\* number of on_press calls since the previous drain, and leaves a zero
\* counter and a cleared flag behind; on_release changes neither the
\* counter nor the new-event flag.
C16_PressesOnly ==
    /\ [](pollPc = "k_return" =>
             /\ kbSnap = Presses - kbDrained
             /\ kbData = KbDefault
             /\ ~kbFlag)
    /\ [][kbLog' = Append(kbLog, "release") =>
             /\ kbData' = kbData
             /\ kbSnap' = kbSnap
             /\ kbFlag' = kbFlag]_vars

\* press, release, press, then a drain: the snapshot holds 2
C16_Witness ==
    /\ pollPc = "k_return"
    /\ kbLog = <<"press", "release", "press">>
    /\ kbDrained = 0
    /\ kbSnap = 2

\* C17: a call of seconds_since_last_input that finds a new event in the
\* mouse or the keyboard aggregator sets last_activity to its own now,
\* drains both aggregators (no flag and zero counters afterwards) and
\* returns 0; a call that finds none leaves last_activity and both
\* aggregators as they were and returns now - last_activity.
C17_PollContract ==
    [][(pollPc = "ret" /\ pollPc' = "idle") =>
          IF pollPre.mouse \/ pollPre.kb
          THEN /\ pollActed
               /\ last_activity' = pollNow
               /\ ~mFlag' /\ ~kbFlag'
               /\ mData' = MouseDefault
               /\ kbData' = KbDefault
               /\ pollRet' = 0
          ELSE /\ ~pollActed
               /\ last_activity' = pollPre.last_activity
               /\ ~mFlag' /\ ~kbFlag'
               /\ mData' = pollPre.mData
               /\ kbData' = pollPre.kbData
               /\ pollRet' = pollNow - pollPre.last_activity]_vars

\* the first call found an event and returned 0, the second found none
\* and returned the second that had passed
C17_Witness ==
    /\ pollPc = "idle"
    /\ polls = 2
    /\ ~pollActed
    /\ last_activity = MsPerSec
    /\ pollRet = MsPerSec

\* the call with this index has returned
Returned(h) == polls > h \/ (polls = h /\ pollPc = "idle")

\* C19: no input activity is missed under any interleaving.  When a
\* callback completes (counter stored, flag set), the call in progress or
\* else the next call sets last_activity to its own now: no call that owes
\* this returns without having done so; and a call that has set
\* last_activity returns 0.
C19_NoInputMissed ==
    /\ [](\A h \in owed : ~Returned(h))
    /\ [][(pollPc = "ret" /\ pollPc' = "idle" /\ pollActed) =>
             /\ last_activity = pollNow
             /\ pollRet' = 0]_vars

\* a single key press, completed before or during the second call, was
\* noticed by the second call, which drained it and returned 0
C19_Witness ==
    /\ polls = 2
    /\ pollPc = "idle"
    /\ pollActed
    /\ pollRet = 0
    /\ last_activity = 2 * MsPerSec
    /\ owed = {}
    /\ Presses = 1
    /\ mCalls = 0
    /\ kbDrained = 1

\* C18 as claimed: whenever the two last calls both read a current tick
\* that is not below the last-input tick and no input arrived since the
\* earlier one began, the later result is not smaller.
C18_MonotoneWhileAbove ==
    (/\ winRes.valid /\ winPrev.valid
     /\ winRes.quiet
     /\ winRes.above
     /\ winPrev.above)
        => winRes.ret >= winPrev.ret

\* C18: the result is the current tick minus the last-input tick, in ms;
\* it is not negative when the current tick read is not below the
\* last-input tick read, in particular when the counter has not wrapped
\* since the last input; and when moreover no input arrived since the
\* previous call began, it is not smaller than the previous result.
C18_MonotoneUntilWrap ==
    /\ [](winRes.valid =>
             /\ (winRes.above => winRes.ret >= 0)
             /\ (winRes.nowrap => (winRes.above /\ winRes.ret >= 0))
             /\ ((winPrev.valid /\ winRes.quiet /\ winRes.nowrap) =>
                    winRes.ret >= winPrev.ret))
    /\ [][(winPc = "divide" /\ winPc' = "idle") =>
             /\ winRes'.ret = winCur - winLast
             /\ winRes'.above = (winCur >= winLast)]_vars

\* two calls with no input and no wrap, the idle time having grown
C18_Witness ==
    /\ winRes.valid /\ winPrev.valid
    /\ winRes.quiet /\ winRes.nowrap
    /\ winPrev.ret > 0
    /\ winRes.ret > winPrev.ret

\* C20: with an idle source that agrees with the clock, the timestamps of
\* the heartbeats are non-decreasing in the order of their emission.
C20_TimestampsNeverGoBack ==
    \A i \in 1..Len(Heartbeats) : \A j \in 1..Len(Heartbeats) :
        i < j => Heartbeats[i].timestamp <= Heartbeats[j].timestamp

\* C22: the drain of the mouse accumulator resets the five counters to 0
\* and clears the flag but keeps the remembered cursor position: no step of
\* a seconds_since_last_input call changes pos, and what the drains took
\* plus what the accumulator holds is the path length over all the moves
\* since construction, so that a move after a drain adds the displacement
\* from the last position before it and only the very first move adds 0.
C22_DrainKeepsPosition ==
    /\ [](pollPc = "m_return" => (mData = MouseDefault /\ ~mFlag))
    /\ []((mPc = "idle" /\ BetweenCalls) =>
             /\ mDrained.deltaX + mData.deltaX = PathLength(mMoves, 1)
             /\ mDrained.deltaY + mData.deltaY = PathLength(mMoves, 2)
             /\ (mMoves # << >> => mPos = mMoves[Len(mMoves)]))
    /\ [][pollPc' # pollPc => mPos' = mPos]_vars

\* moves (0,0) -> (3,4), a drain, then a move to (1,4): the drain took 3
\* and 4, and the move after it added 2 and 0
C22_Witness ==
    /\ mPc = "idle"
    /\ BetweenCalls
    /\ mMoves = << <<0, 0>>, <<3, 4>>, <<1, 4>> >>
    /\ mDrained = [deltaX |-> 3, deltaY |-> 4]
    /\ mData.deltaX = 2
    /\ mData.deltaY = 0
    /\ mFlag

\* the tick in progress has completed
TickDone == pc = "sleep"

\* no input callback fires any more
InputStopped == kbPc = "idle" /\ kbCalls = budget.kb

\* the ticks still to come suffice to notice the last input and then to
\* let the idle time reach the timeout
EnoughTicks ==
    /\ settings # NoSettings
    /\ polls + 1 + (settings.timeout \div settings.poll_time) <= budget.polls

===========================================================================
